---- MODULE Spec2Model ----
(***************************************************************************)
(* Model of src/main.rs of image-compressor: main() parses the size        *)
(* budget, opens the image, selects the codec, runs the size-constrained   *)
(* search loop of that codec (compress_jpeg, compress_png, compress_webp), *)
(* writes the result and reports whether the budget was met.               *)
(*                                                                         *)
(* The encoders, the PNG optimizer, the size parser and the file system    *)
(* are external: their results are chosen nondeterministically.  A byte    *)
(* of an encoded stream is modelled by the number of the attempt that      *)
(* produced it, so a buffer is a sequence of attempt numbers.              *)
(*                                                                         *)
(* scale is an f32 in the code.  It is modelled exactly, as an integer     *)
(* count of units of 2^-27 (the ulp of the f32 nearest to 0.1), with the   *)
(* IEEE round-to-nearest-even subtraction.                                 *)
(***************************************************************************)
EXTENDS Integers, Sequences, FiniteSets, TLC

\* ---------------------------------------------------------------- bounds
\* largest byte length an encoder or the optimizer produces
MaxSize == 3
\* largest budget the size string parses to
MaxBudget == 2

\* largest width and height of the input image
MaxDim == 5

Sizes == 1..MaxSize
Widths == 1..MaxDim
Heights == {1, MaxDim}
Budgets == 0..MaxBudget

\* ------------------------------------------------------------- constants
\* 1.0f32 in units of 2^-27
ONE == 134217728
\* 0.1f32 = 13421773 * 2^-27
TENTH == 13421773
\* let mut quality = 90
InitialQuality == 90
\* the quality floor and the quality step
QualityFloor == 10
QualityStep == 10

Formats == {"Auto", "Jpeg", "Png", "Webp"}
Extensions == {"jpg", "jpeg", "png", "webp", "bmp", ""}

\* ------------------------------------------------------------ f32 maths
Abs(x) == IF x < 0 THEN -x ELSE x

\* ulp, in units of 2^-27, of the binade that holds |d|
Ulp(d) ==
    IF Abs(d) >= 1073741824 THEN 128
    ELSE IF Abs(d) >= 536870912 THEN 64
    ELSE IF Abs(d) >= 268435456 THEN 32
    ELSE IF Abs(d) >= 134217728 THEN 16
    ELSE IF Abs(d) >= 67108864 THEN 8
    ELSE IF Abs(d) >= 33554432 THEN 4
    ELSE IF Abs(d) >= 16777216 THEN 2
    ELSE 1

\* round d >= 0 to a multiple of u, ties to even
RoundNearestEven(d, u) ==
    LET q == d \div u
        r == d % u
    IN  IF 2 * r < u THEN q * u
        ELSE IF 2 * r > u THEN (q + 1) * u
        ELSE IF q % 2 = 0 THEN q * u ELSE (q + 1) * u

\* a - b in f32
F32Sub(a, b) ==
    LET d == a - b
    IN  IF d >= 0 THEN RoundNearestEven(d, Ulp(d))
        ELSE -RoundNearestEven(-d, Ulp(d))

\* w as f32 * s, for an image dimension w
F32Mul(w, s) == RoundNearestEven(w * s, Ulp(w * s))

\* x as u32, for x >= 0: the fraction is dropped
AsU32(x) == x \div ONE

\* ------------------------------------------------------------- the state
VARIABLES
    args,             \* the parsed command line: ms, format, ext
    img,              \* main: img, the decoded raster (width, height)
    pc,               \* position of the program
    err,              \* the error main returned with, "" if none
    target_size,      \* main: parsed budget
    format,           \* main: selected format
    quality,          \* compress_jpeg: quality
    scale,            \* compress_*: scale, in units of 2^-27
    processed,        \* compress_*: processed_img, how and from what it was made
    buffer,           \* compress_*: buffer
    optimized,        \* compress_png: optimized
    compressed_data,  \* main: compressed_data, <<>> before the search ends
    returned,         \* TRUE once the search function returned Ok
    out_exists,       \* the output file exists
    out_file,         \* contents of the output file
    final_size,       \* main: final_size
    message,          \* the verdict printed: "", "Warning" or "Success"
    attempts,         \* history: knobs of every encode attempt, in order
    resizeCalls,      \* history: number of resize calls
    optimizeCalls,    \* history: number of optimize calls
    firstLen,         \* history: measured length of the first attempt
    lastLen,          \* history: length compared with the budget last
    fits,             \* history: per measured attempt, whether it met the budget
    failedAt          \* history: call counts when the error was raised

vars == <<args, img, pc, err, target_size, format, quality, scale, processed,
          buffer, optimized, compressed_data, returned, out_exists, out_file,
          final_size, message, attempts, resizeCalls, optimizeCalls,
          firstLen, lastLen, fits, failedAt>>

mainVars == <<args, img, target_size, format>>
fileVars == <<out_exists, out_file, final_size, message>>
histVars == <<attempts, resizeCalls, optimizeCalls, firstLen, lastLen, fits>>

\* processed_img before the first iteration
NoRaster == [kind |-> "", of |-> [width |-> 0, height |-> 0], width |-> 0, height |-> 0]

ArgSet ==
    [ms : [ok : {TRUE}, n : Budgets] \cup {[ok |-> FALSE, n |-> 0]},
     format : Formats,
     ext : Extensions]

Init ==
    /\ args \in ArgSet
    /\ img = [width |-> 0, height |-> 0]
    /\ pc = "parse_size"
    /\ err = ""
    /\ target_size = 0
    /\ format = "Auto"
    /\ quality = 0
    /\ scale = 0
    /\ processed = NoRaster
    /\ buffer = <<>>
    /\ optimized = <<>>
    /\ compressed_data = <<>>
    /\ returned = FALSE
    /\ out_exists = FALSE
    /\ out_file = <<>>
    /\ final_size = 0
    /\ message = ""
    /\ attempts = <<>>
    /\ resizeCalls = 0
    /\ optimizeCalls = 0
    /\ firstLen = 0
    /\ lastLen = 0
    /\ fits = <<>>
    /\ failedAt = <<>>

\* main returns Err(e): `?` at the current position
Fail(e) ==
    /\ pc' = "failed"
    /\ err' = e
    /\ failedAt' = <<Len(attempts), resizeCalls, optimizeCalls, quality, scale>>

\* n bytes written by attempt number k
Bytes(n, k) == [i \in 1..n |-> k]

\* ------------------------------------------------------------------ main
\* line 147: parse_size::parse_size(&args.ms), an error is a configuration error
ParseSize ==
    /\ pc = "parse_size"
    /\ IF args.ms.ok
         THEN /\ target_size' = args.ms.n
              /\ pc' = "open"
              /\ UNCHANGED <<err, failedAt>>
         ELSE /\ Fail("size")
              /\ UNCHANGED target_size
    /\ UNCHANGED <<args, img, format, quality, scale, processed, buffer,
                   optimized, compressed_data, returned, fileVars, histVars>>

\* line 153: image::open(&args.input)?
OpenImage ==
    /\ pc = "open"
    /\ \/ /\ \E w \in Widths, h \in Heights : img' = [width |-> w, height |-> h]
          /\ pc' = "detect"
          /\ UNCHANGED <<err, failedAt>>
       \/ /\ Fail("input")
          /\ UNCHANGED img
    /\ UNCHANGED <<args, target_size, format, quality, scale, processed, buffer, optimized,
                   compressed_data, returned, fileVars, histVars>>


\* faulty variant: a known output extension overrides the explicit request
SelectFormatExtensionWins(requested, ext) ==
    CASE ext \in {"jpg", "jpeg"} -> "Jpeg"
      [] ext = "png" -> "Png"
      [] ext = "webp" -> "Webp"
      [] OTHER -> IF requested = "Auto" THEN "Jpeg" ELSE requested

\* lines 154-163: the format selector
SelectFormat(requested, ext) ==
    IF requested = "Auto"
      THEN CASE ext \in {"jpg", "jpeg"} -> "Jpeg"
             [] ext = "png" -> "Png"
             [] ext = "webp" -> "Webp"
             [] OTHER -> "Jpeg"
      ELSE requested

DetectFormat ==
    /\ pc = "detect"
    /\ format' = SelectFormat(args.format, args.ext)
    /\ pc' = "compress"
    /\ UNCHANGED <<args, img, err, target_size, quality, scale, processed,
                   buffer, optimized, compressed_data, returned, fileVars,
                   histVars, failedAt>>

\* lines 167-171: which search function main calls
Codec(f) ==
    CASE f \in {"Jpeg", "Auto"} -> "jpeg"
      [] f = "Png" -> "png"
      [] f = "Webp" -> "webp"

\* ------------------------------------------------- the shared loop steps
\* faulty variant: the full-size raster is resized too
NeedsResizeAlways(s) == s <= ONE

\* lines 51, 85, 119: resize is called when scale < 1.0
NeedsResize(s) == s < ONE

\* lines 52-53, 86-87, 120-121: the raster whose dimensions are read and
\* that is resized is img
ResizeSource(original, previous) == original

\* lines 54-55, 88-89, 122-123: (w as f32 * scale) as u32
ResizeDim(w, s) == AsU32(F32Mul(w, s))

\* lines 51-60, 85-94, 119-128: processed_img; a resized raster is recorded
\* with the raster it was made from and the dimensions asked of resize
MakeProcessed ==
    IF NeedsResize(scale)
      THEN /\ processed' = [kind |-> "resized", of |-> ResizeSource(img, processed),
                            width |-> ResizeDim(ResizeSource(img, processed).width, scale),
                            height |-> ResizeDim(ResizeSource(img, processed).height, scale)]
           /\ resizeCalls' = resizeCalls + 1
      ELSE /\ processed' = [kind |-> "clone", of |-> img,
                            width |-> img.width, height |-> img.height]
           /\ UNCHANGED resizeCalls

\* the encode attempt is recorded with the knobs it ran at
Attempt == [quality |-> quality, scale |-> scale]

\* the search function returns Ok(data)
Return(data) ==
    /\ compressed_data' = data
    /\ returned' = TRUE
    /\ pc' = "create"

\* the measured length is noted, the first one kept
Measure(len) ==
    /\ lastLen' = len
    /\ fits' = Append(fits, len <= target_size)
    /\ firstLen' = IF Len(attempts) = 1 THEN len ELSE firstLen

\* ---------------------------------------------------------- compress_jpeg
\* lines 40-42
JpegEnter ==
    /\ pc = "compress"
    /\ Codec(format) = "jpeg"
    /\ quality' = InitialQuality
    /\ scale' = ONE
    /\ buffer' = <<>>
    /\ pc' = "jpeg_top"
    /\ UNCHANGED <<mainVars, err, processed, optimized, compressed_data,
                   returned, fileVars, histVars, failedAt>>


\* faulty variant: the buffer is not emptied, the encoder appends to it
JpegClearKeeps(buf) == buf

\* line 45: buffer.clear()
JpegClear(buf) == <<>>

\* lines 45-60: clear the buffer, make the working raster
JpegPrepare ==
    /\ pc = "jpeg_top"
    /\ buffer' = JpegClear(buffer)
    /\ MakeProcessed
    /\ pc' = "jpeg_encode"
    /\ UNCHANGED <<mainVars, err, quality, scale, optimized, compressed_data,
                   returned, fileVars, attempts, optimizeCalls, firstLen,
                   lastLen, fits, failedAt>>

\* line 62: encoder.encode_image(&processed_img)?
JpegEncode ==
    /\ pc = "jpeg_encode"
    /\ attempts' = Append(attempts, Attempt)
    /\ \/ \E n \in Sizes :
            /\ buffer' = buffer \o Bytes(n, Len(attempts) + 1)
            /\ pc' = "jpeg_check"
            /\ UNCHANGED <<err, failedAt>>
       \/ /\ pc' = "failed"
          /\ err' = "encode"
          /\ failedAt' = <<Len(attempts) + 1, resizeCalls, optimizeCalls,
                           quality, scale>>
          /\ UNCHANGED buffer
    /\ UNCHANGED <<mainVars, quality, scale, processed, optimized,
                   compressed_data, returned, fileVars, resizeCalls,
                   optimizeCalls, firstLen, lastLen, fits>>


\* faulty variant: the walk gives up as soon as either knob is at its floor
JpegBreakEitherFloor(len, target, q, s) ==
    len <= target \/ q <= QualityFloor \/ s <= TENTH

\* faulty variant: the exhaustion test misses the quality floor by one
JpegBreakBelowFloor(len, target, q, s) ==
    len <= target \/ (q < QualityFloor /\ s <= TENTH)

\* line 64: the break condition
JpegBreak(len, target, q, s) ==
    len <= target \/ (q <= QualityFloor /\ s <= TENTH)

\* faulty variant: scale is walked before quality
JpegTightenScaleFirst(q, s) ==
    IF s > TENTH
      THEN [quality |-> q, scale |-> F32Sub(s, TENTH)]
      ELSE [quality |-> q - QualityStep, scale |-> s]

\* faulty variant: scale is tightened in every step, with quality while it lasts
JpegTightenBoth(q, s) ==
    IF q > QualityFloor
      THEN [quality |-> q - QualityStep, scale |-> F32Sub(s, TENTH)]
      ELSE [quality |-> q, scale |-> F32Sub(s, TENTH)]

\* lines 68-72: the next knobs
JpegTighten(q, s) ==
    IF q > QualityFloor
      THEN [quality |-> q - QualityStep, scale |-> s]
      ELSE [quality |-> q, scale |-> F32Sub(s, TENTH)]

\* lines 64-75
JpegCheck ==
    /\ pc = "jpeg_check"
    /\ Measure(Len(buffer))
    /\ IF JpegBreak(Len(buffer), target_size, quality, scale)
         THEN /\ Return(buffer)
              /\ UNCHANGED <<quality, scale>>
         ELSE /\ quality' = JpegTighten(quality, scale).quality
              /\ scale' = JpegTighten(quality, scale).scale
              /\ pc' = "jpeg_top"
              /\ UNCHANGED <<compressed_data, returned>>
    /\ UNCHANGED <<mainVars, err, processed, buffer, optimized, fileVars,
                   attempts, resizeCalls, optimizeCalls, failedAt>>

\* ----------------------------------------------------------- compress_png
\* line 79
PngEnter ==
    /\ pc = "compress"
    /\ Codec(format) = "png"
    /\ scale' = ONE
    /\ pc' = "png_top"
    /\ UNCHANGED <<mainVars, err, quality, processed, buffer, optimized,
                   compressed_data, returned, fileVars, histVars, failedAt>>

\* lines 82-94: a new buffer, the working raster
PngPrepare ==
    /\ pc = "png_top"
    /\ buffer' = <<>>
    /\ MakeProcessed
    /\ pc' = "png_encode"
    /\ UNCHANGED <<mainVars, err, quality, scale, optimized, compressed_data,
                   returned, fileVars, attempts, optimizeCalls, firstLen,
                   lastLen, fits, failedAt>>

\* line 96: processed_img.write_to(&mut cursor, ImageFormat::Png)?
PngEncode ==
    /\ pc = "png_encode"
    /\ attempts' = Append(attempts, Attempt)
    /\ \/ \E n \in Sizes :
            /\ buffer' = buffer \o Bytes(n, Len(attempts) + 1)
            /\ pc' = "png_optimize"
            /\ UNCHANGED <<err, failedAt>>
       \/ /\ pc' = "failed"
          /\ err' = "encode"
          /\ failedAt' = <<Len(attempts) + 1, resizeCalls, optimizeCalls,
                           quality, scale>>
          /\ UNCHANGED buffer
    /\ UNCHANGED <<mainVars, quality, scale, processed, optimized,
                   compressed_data, returned, fileVars, resizeCalls,
                   optimizeCalls, firstLen, lastLen, fits>>

\* faulty variant: an optimizer error is swallowed, the unoptimized bytes are used
PngOptimizeFallback ==
    /\ pc = "png_optimize"
    /\ optimizeCalls' = optimizeCalls + 1
    /\ \/ \E n \in Sizes :
            /\ n <= Len(buffer)
            /\ optimized' = Bytes(n, Len(attempts))
            /\ UNCHANGED <<err, failedAt>>
       \/ /\ err' = "optimize"
          /\ failedAt' = <<Len(attempts), resizeCalls, optimizeCalls + 1,
                           quality, scale>>
          /\ optimized' = buffer
    /\ pc' = "png_check"
    /\ UNCHANGED <<mainVars, quality, scale, processed, buffer,
                   compressed_data, returned, fileVars, attempts, resizeCalls,
                   firstLen, lastLen, fits>>

\* lines 99-101: oxipng::optimize_from_memory(&buffer, &options)?, whose
\* output is no longer than its input
PngOptimize ==
    /\ pc = "png_optimize"
    /\ optimizeCalls' = optimizeCalls + 1
    /\ \/ \E n \in Sizes :
            /\ n <= Len(buffer)
            /\ optimized' = Bytes(n, Len(attempts))
            /\ pc' = "png_check"
            /\ UNCHANGED <<err, failedAt>>
       \/ /\ pc' = "failed"
          /\ err' = "optimize"
          /\ failedAt' = <<Len(attempts), resizeCalls, optimizeCalls + 1,
                           quality, scale>>
          /\ UNCHANGED optimized
    /\ UNCHANGED <<mainVars, quality, scale, processed, buffer,
                   compressed_data, returned, fileVars, attempts, resizeCalls,
                   firstLen, lastLen, fits>>


\* faulty variant: a length equal to the budget does not end the walk
PngBreakStrict(len, target, s) == len < target \/ s <= TENTH

\* faulty variant: the exhaustion test is forgotten
PngBreakNoExhaustion(len, target, s) == len <= target

\* line 103: the return condition
PngBreak(len, target, s) == len <= target \/ s <= TENTH

\* line 107: scale -= 0.1
PngTighten(s) == F32Sub(s, TENTH)


\* faulty variant: the unoptimized encoder output is measured and returned
PngArtifactUnoptimized(buf, opt) == buf

\* lines 103-104: the stream that is measured and returned is `optimized`
PngArtifact(buf, opt) == opt

\* lines 103-107
PngCheck ==
    /\ pc = "png_check"
    /\ Measure(Len(PngArtifact(buffer, optimized)))
    /\ IF PngBreak(Len(PngArtifact(buffer, optimized)), target_size, scale)
         THEN /\ Return(PngArtifact(buffer, optimized))
              /\ UNCHANGED scale
         ELSE /\ scale' = PngTighten(scale)
              /\ pc' = "png_top"
              /\ UNCHANGED <<compressed_data, returned>>
    /\ UNCHANGED <<mainVars, err, quality, processed, buffer, optimized,
                   fileVars, attempts, resizeCalls, optimizeCalls, failedAt>>

\* ---------------------------------------------------------- compress_webp
\* let mut quality = 80.0, never read again
WebpQuality == 80

\* lines 112-113
WebpEnter ==
    /\ pc = "compress"
    /\ Codec(format) = "webp"
    /\ quality' = WebpQuality
    /\ scale' = ONE
    /\ pc' = "webp_top"
    /\ UNCHANGED <<mainVars, err, processed, buffer, optimized,
                   compressed_data, returned, fileVars, histVars, failedAt>>

\* lines 116-128
WebpPrepare ==
    /\ pc = "webp_top"
    /\ buffer' = <<>>
    /\ MakeProcessed
    /\ pc' = "webp_encode"
    /\ UNCHANGED <<mainVars, err, quality, scale, optimized, compressed_data,
                   returned, fileVars, attempts, optimizeCalls, firstLen,
                   lastLen, fits, failedAt>>

\* line 131: processed_img.write_to(&mut cursor, ImageFormat::WebP)?
WebpEncode ==
    /\ pc = "webp_encode"
    /\ attempts' = Append(attempts, Attempt)
    /\ \/ \E n \in Sizes :
            /\ buffer' = buffer \o Bytes(n, Len(attempts) + 1)
            /\ pc' = "webp_check"
            /\ UNCHANGED <<err, failedAt>>
       \/ /\ pc' = "failed"
          /\ err' = "encode"
          /\ failedAt' = <<Len(attempts) + 1, resizeCalls, optimizeCalls,
                           quality, scale>>
          /\ UNCHANGED buffer
    /\ UNCHANGED <<mainVars, quality, scale, processed, optimized,
                   compressed_data, returned, fileVars, resizeCalls,
                   optimizeCalls, firstLen, lastLen, fits>>

\* faulty variant: the budget test is forgotten, the walk always runs to exhaustion
WebpBreakExhaustionOnly(len, target, s) == s <= TENTH

\* line 136: the return condition
WebpBreak(len, target, s) == len <= target \/ s <= TENTH

\* line 140: scale -= 0.1
WebpTighten(s) == F32Sub(s, TENTH)

\* lines 136-140
WebpCheck ==
    /\ pc = "webp_check"
    /\ Measure(Len(buffer))
    /\ IF WebpBreak(Len(buffer), target_size, scale)
         THEN /\ Return(buffer)
              /\ UNCHANGED scale
         ELSE /\ scale' = WebpTighten(scale)
              /\ pc' = "webp_top"
              /\ UNCHANGED <<compressed_data, returned>>
    /\ UNCHANGED <<mainVars, err, quality, processed, buffer, optimized,
                   fileVars, attempts, resizeCalls, optimizeCalls, failedAt>>

\* ------------------------------------------------------ main, the output
searchVars == <<quality, scale, processed, buffer, optimized,
                compressed_data, returned>>

\* line 173: File::create(&args.output)?, which truncates an existing file
CreateFile ==
    /\ pc = "create"
    /\ \/ /\ out_exists' = TRUE
          /\ out_file' = <<>>
          /\ pc' = "write"
          /\ UNCHANGED <<err, failedAt>>
       \/ /\ Fail("output")
          /\ UNCHANGED <<out_exists, out_file>>
    /\ UNCHANGED <<mainVars, searchVars, final_size, message, histVars>>

\* line 174: out_file.write_all(&compressed_data)?, an error may leave a
\* proper prefix of the data in the file
WriteAll ==
    /\ pc = "write"
    /\ \/ /\ out_file' = out_file \o compressed_data
          /\ pc' = "stat"
          /\ UNCHANGED <<err, failedAt>>
       \/ \E k \in 0..(Len(compressed_data) - 1) :
            /\ out_file' = out_file \o SubSeq(compressed_data, 1, k)
            /\ Fail("write")
    /\ UNCHANGED <<mainVars, searchVars, out_exists, final_size, message,
                   histVars>>

\* lines 35-37: get_file_size
get_file_size(file) == Len(file)

\* line 176: get_file_size(&args.output)?
StatFile ==
    /\ pc = "stat"
    /\ \/ /\ final_size' = get_file_size(out_file)
          /\ pc' = "report"
          /\ UNCHANGED <<err, failedAt>>
       \/ /\ Fail("metadata")
          /\ UNCHANGED final_size
    /\ UNCHANGED <<mainVars, searchVars, out_exists, out_file, message,
                   histVars>>

\* faulty variant: a budget that is met exactly is reported as missed
VerdictOffByOne(size, target) == IF size >= target THEN "Warning" ELSE "Success"

\* lines 178-182: which message is printed
Verdict(size, target) == IF size > target THEN "Warning" ELSE "Success"

\* faulty variant: a missed budget makes main return an error
ReportMissIsError ==
    /\ pc = "report"
    /\ message' = Verdict(final_size, target_size)
    /\ IF final_size > target_size
         THEN Fail("budget")
         ELSE /\ pc' = "done"
              /\ UNCHANGED <<err, failedAt>>
    /\ UNCHANGED <<mainVars, searchVars, out_exists, out_file,
                   final_size, histVars>>

\* lines 177-184: print the verdict, return Ok(())
Report ==
    /\ pc = "report"
    /\ message' = Verdict(final_size, target_size)
    /\ pc' = "done"
    /\ UNCHANGED <<mainVars, err, searchVars, out_exists, out_file,
                   final_size, histVars, failedAt>>

Next ==
    \/ ParseSize
    \/ OpenImage
    \/ DetectFormat
    \/ JpegEnter
    \/ JpegPrepare
    \/ JpegEncode
    \/ JpegCheck
    \/ PngEnter
    \/ PngPrepare
    \/ PngEncode
    \/ PngOptimize
    \/ PngCheck
    \/ WebpEnter
    \/ WebpPrepare
    \/ WebpEncode
    \/ WebpCheck
    \/ CreateFile
    \/ WriteAll
    \/ StatFile
    \/ Report

Spec == Init /\ [][Next]_vars

\* ------------------------------------------------------------ properties
jpegRun == Codec(format) = "jpeg" /\ pc \notin {"parse_size", "open", "detect"}
pngRun == Codec(format) = "png" /\ pc \notin {"parse_size", "open", "detect"}
webpRun == Codec(format) = "webp" /\ pc \notin {"parse_size", "open", "detect"}

\* the tenths nearest to the f32 scale s, and the drift of s from them
NominalTenths(s) == (10 * s + ONE \div 2) \div ONE
Drift(s) == Abs(10 * s - NominalTenths(s) * ONE)
\* the drift stays within what nine f32 subtractions may leave (under 1e-6)
WithinRounding(s) == Drift(s) <= 128

\* the bytes of the artifact all come from the last attempt
FromLastAttempt(data) == \A i \in 1..Len(data) : data[i] = Len(attempts)

\* C1: a run that finishes without an error prints the success message if
\* and only if the length of the artifact returned by the search and
\* written to the file is <= the budget, and the warning exactly when that
\* length is > the budget.
C1_FlagCorrect ==
    pc = "done" =>
        /\ out_file = compressed_data
        /\ message \in {"Success", "Warning"}
        /\ (message = "Success") <=> (Len(compressed_data) <= target_size)
        /\ (message = "Warning") <=> (Len(compressed_data) > target_size)

C1_Witness ==
    /\ pc = "done"
    /\ message = "Success"
    /\ Len(compressed_data) = target_size
    /\ Len(attempts) > 1

\* C2 as stated: compress_jpeg makes at most 17 encode attempts.
C2_AtMost17 == jpegRun => Len(attempts) <= 17

\* C2 amended: compress_jpeg makes at most 18 encode attempts, 9 quality
\* values at full scale followed by 9 scales below 1.0 at quality 10, and
\* the 18th attempt always ends the loop.
C2_AtMost18 ==
    jpegRun =>
        /\ Len(attempts) <= 18
        /\ (pc = "jpeg_top" => Len(attempts) < 18)
        /\ (Len(attempts) = 18 /\ pc = "jpeg_check" =>
                JpegBreak(Len(buffer), target_size, quality, scale))

C2_Witness == jpegRun /\ returned /\ Len(attempts) = 18

\* C3: compress_png and compress_webp make at most 10 encode attempts; the
\* k-th attempt runs at the f32 scale reached from 1.0 by k-1 subtractions
\* of 0.1, which is 1.0 - (k-1)/10 up to rounding.
C3_AtMost10 ==
    (pngRun \/ webpRun) =>
        /\ Len(attempts) <= 10
        /\ (pc \in {"png_top", "webp_top"} => Len(attempts) < 10)
        /\ \A k \in 1..Len(attempts) :
              /\ NominalTenths(attempts[k].scale) = 11 - k
              /\ WithinRounding(attempts[k].scale)
              /\ k > 1 => attempts[k].scale = F32Sub(attempts[k - 1].scale, TENTH)

C3_Witness == pngRun /\ returned /\ Len(attempts) = 10 /\ optimizeCalls = 10

\* the knobs of the k-th attempt of the JPEG walk
JpegWalkQuality(k) == IF k <= 9 THEN 100 - 10 * k ELSE 10
JpegWalkTenths(k) == IF k <= 9 THEN 10 ELSE 19 - k

\* C4: the JPEG attempts follow the walk quality 90, 80, ..., 10 at scale
\* 1.0, then quality 10 at scale 0.9, ..., 0.1 (up to f32 rounding); when
\* every attempt exceeds the budget the run makes all 18, raises no error
\* in the search, and returns the artifact of the last attempt, reported
\* with the warning.
C4_ExhaustionWalk ==
    jpegRun =>
        /\ \A k \in 1..Len(attempts) :
              /\ attempts[k].quality = JpegWalkQuality(k)
              /\ NominalTenths(attempts[k].scale) = JpegWalkTenths(k)
              /\ WithinRounding(attempts[k].scale)
              /\ (k <= 9 => attempts[k].scale = ONE)
        /\ (returned /\ lastLen > target_size =>
              /\ Len(attempts) = 18
              /\ quality = 10
              /\ NominalTenths(scale) = 1
              /\ Len(compressed_data) = lastLen
              /\ FromLastAttempt(compressed_data)
              /\ err \in {"", "output", "write", "metadata"}
              /\ (pc = "done" => message = "Warning"))

C4_Witness ==
    /\ jpegRun
    /\ pc = "done"
    /\ lastLen > target_size
    /\ Len(attempts) = 18
    /\ message = "Warning"

\* C5: if the first attempt measures <= budget, the search returns it: one
\* encode (for PNG one optimize pass), no resize, the knobs still at their
\* initial values, and the verdict is the success message.
C5_FirstFit ==
    (firstLen > 0 /\ firstLen <= target_size) =>
        /\ returned
        /\ Len(attempts) = 1
        /\ resizeCalls = 0
        /\ optimizeCalls = (IF pngRun THEN 1 ELSE 0)
        /\ scale = ONE
        /\ (jpegRun => quality = InitialQuality)
        /\ compressed_data = Bytes(firstLen, 1)
        /\ (pc = "done" => message = "Success")

C5_Witness ==
    /\ pc = "done"
    /\ pngRun
    /\ firstLen <= target_size
    /\ message = "Success"
    /\ optimizeCalls = 1

\* C6 as stated: whenever the loop iterated more than once, the returned
\* artifact is no longer than the artifact of the first attempt.
C6_NoRegression ==
    (returned /\ Len(attempts) > 1) => Len(compressed_data) <= firstLen

\* C6 amended: whenever the loop iterated more than once and the returned
\* artifact meets the budget, it is shorter than the artifact of the first
\* attempt (an exhausted run returns its last attempt, whatever its length).
C6_NoRegressionWhenMet ==
    (returned /\ Len(attempts) > 1 /\ Len(compressed_data) <= target_size) =>
        /\ Len(compressed_data) <= firstLen
        /\ firstLen > target_size

C6_Witness ==
    /\ returned
    /\ Len(attempts) > 1
    /\ Len(compressed_data) <= target_size
    /\ webpRun

\* C7: between two successive attempts neither knob increases and exactly
\* one knob is strictly decreased (for PNG and WebP that knob is scale).
C7_MonotoneKnobs ==
    \A k \in 1..(Len(attempts) - 1) :
        LET a == attempts[k]
            b == attempts[k + 1]
        IN  /\ b.quality <= a.quality
            /\ b.scale <= a.scale
            /\ (b.quality < a.quality) # (b.scale < a.scale)
            /\ (~jpegRun => b.scale < a.scale)

C7_Witness ==
    /\ jpegRun
    /\ Len(attempts) = 18
    /\ attempts[2].quality < attempts[1].quality
    /\ attempts[18].scale < attempts[17].scale

collaboratorErrors == {"encode", "optimize"}

\* C8: once a collaborator has failed the run has ended with that error:
\* no call is made and no knob is changed after the failure, the search
\* returns no artifact and the output file is neither created nor written.
C8_FailureIsFatal ==
    err \in collaboratorErrors =>
        /\ pc = "failed"
        /\ failedAt = <<Len(attempts), resizeCalls, optimizeCalls, quality, scale>>
        /\ ~returned
        /\ compressed_data = <<>>
        /\ ~out_exists
        /\ out_file = <<>>
        /\ message = ""

C8_Witness ==
    /\ err = "optimize"
    /\ pc = "failed"
    /\ Len(attempts) > 1

configurationErrors == {"size", "input", "output"}

\* C9: a run that ends with a configuration error (size string, input
\* path, output path) has made no resize and no encoder call.
C9_ConfigErrorsBeforeSearch ==
    (pc = "failed" /\ err \in configurationErrors) =>
        /\ Len(attempts) = 0
        /\ resizeCalls = 0

\* C10: a missed budget is not an error: after the search returned an
\* artifact longer than the budget, main fails only on a file-system error,
\* and otherwise ends Ok with the artifact written to the output file and
\* the warning printed; a run that met the budget ends the same way but
\* for the message.
C10_MissIsNotAnError ==
    /\ (returned /\ Len(compressed_data) > target_size) =>
          /\ pc \in {"create", "write", "stat", "report", "done", "failed"}
          /\ (pc = "failed" => err \in {"output", "write", "metadata"})
          /\ (pc = "done" => message = "Warning")
    /\ pc = "done" =>
          /\ returned
          /\ err = ""
          /\ out_exists
          /\ out_file = compressed_data
          /\ final_size = Len(compressed_data)

C10_Witness ==
    /\ pc = "done"
    /\ Len(compressed_data) > target_size
    /\ out_file = compressed_data
    /\ message = "Warning"

\* the search loop the program is in, "" outside the loops
Controller ==
    CASE pc \in {"jpeg_top", "jpeg_encode", "jpeg_check"} -> "Jpeg"
      [] pc \in {"png_top", "png_encode", "png_optimize", "png_check"} -> "Png"
      [] pc \in {"webp_top", "webp_encode", "webp_check"} -> "Webp"
      [] OTHER -> ""

\* C11: once the format is selected it is one of Jpeg, Png, Webp, never
\* Auto: an explicit request is taken unchanged whatever the extension;
\* without one, jpg/jpeg give Jpeg, png gives Png, webp gives Webp and any
\* other or no extension gives Jpeg; the search loop that runs is the one
\* of the selected format.
C11_FormatSelector ==
    pc \notin {"parse_size", "open", "detect"} /\ err \notin {"size", "input"} =>
        /\ format \in {"Jpeg", "Png", "Webp"}
        /\ (args.format # "Auto" => format = args.format)
        /\ (args.format = "Auto" /\ args.ext \in {"jpg", "jpeg"} => format = "Jpeg")
        /\ (args.format = "Auto" /\ args.ext = "png" => format = "Png")
        /\ (args.format = "Auto" /\ args.ext = "webp" => format = "Webp")
        /\ (args.format = "Auto" /\ args.ext \notin {"jpg", "jpeg", "png", "webp"}
                => format = "Jpeg")
        /\ (Controller # "" => Controller = format)
        /\ (optimizeCalls > 0 => format = "Png")

C11_Witness ==
    /\ args.format = "Png"
    /\ args.ext = "jpg"
    /\ pc = "png_check"
    /\ format = "Png"

\* the f32 nearest to k/10, in units of 2^-27
F32OfTenths(k) ==
    LET n == k * ONE
        u == Ulp(n \div 10)
        q == n \div (10 * u)
        r == n % (10 * u)
    IN  IF 2 * r < 10 * u THEN q * u ELSE (q + 1) * u

ScaleGrid == {F32OfTenths(k) : k \in 1..10}
QualityGrid == {10 * k : k \in 1..9}

\* C12: in every iteration of compress_jpeg quality is one of 90, 80, ...,
\* 10, scale is one of 1.0, 0.9, ..., 0.1 and never below 0.1, and scale is
\* below 1.0 only while quality is 10; in every iteration of compress_png
\* and compress_webp scale is one of 1.0, 0.9, ..., 0.1.
C12_KnobRanges ==
    \A k \in 1..Len(attempts) :
        /\ attempts[k].scale \in ScaleGrid
        /\ attempts[k].scale >= TENTH
        /\ jpegRun =>
              /\ attempts[k].quality \in QualityGrid
              /\ (attempts[k].scale < ONE => attempts[k].quality = QualityFloor)

\* the exhaustion condition of the codec holds for the knobs a
Exhaustion(a) ==
    /\ a.scale <= TENTH
    /\ NominalTenths(a.scale) = 1
    /\ (jpegRun => a.quality = QualityFloor)

\* C13: a search that returns an artifact longer than the budget made its
\* final attempt at the exhaustion knobs of its codec (JPEG: quality 10 and
\* the last scale of the walk, scale <= 0.1; PNG and WebP: that scale); an
\* attempt at the exhaustion knobs that fits the budget is reported as a
\* success; and the return is final: the artifact is that of the last
\* attempt and the program is past the loop.
C13_ExhaustedOnlyAtFloor ==
    returned =>
        /\ pc \in {"create", "write", "stat", "report", "done", "failed"}
        /\ Len(attempts) >= 1
        /\ lastLen = Len(compressed_data)
        /\ FromLastAttempt(compressed_data)
        /\ (Len(compressed_data) > target_size =>
               /\ Exhaustion(attempts[Len(attempts)])
               /\ quality = attempts[Len(attempts)].quality
               /\ scale = attempts[Len(attempts)].scale
               /\ (pc = "done" => message = "Warning"))
        /\ (Exhaustion(attempts[Len(attempts)]) /\ lastLen <= target_size =>
               (pc = "done" => message = "Success"))

C13_Witness ==
    /\ pc = "done"
    /\ jpegRun
    /\ Exhaustion(attempts[Len(attempts)])
    /\ lastLen <= target_size
    /\ message = "Success"

\* C14: the search is first-fit along the walk: every attempt before the
\* final one measured more than the budget, so a run that ends within the
\* budget returns the artifact of the earliest attempt of the walk that
\* fits.
C14_FirstFitAlongWalk ==
    /\ Len(fits) <= Len(attempts)
    /\ \A k \in 1..Len(fits) :
          fits[k] => /\ k = Len(attempts)
                     /\ returned
                     /\ FromLastAttempt(compressed_data)
    /\ (returned /\ Len(compressed_data) <= target_size) =>
          /\ Len(fits) = Len(attempts)
          /\ fits[Len(fits)]
          /\ \A k \in 1..(Len(fits) - 1) : ~fits[k]

C14_Witness ==
    /\ returned
    /\ webpRun
    /\ Len(attempts) = 4
    /\ fits = <<FALSE, FALSE, FALSE, TRUE>>

\* C15: the bytes returned are exactly the output of the final attempt (for
\* PNG the final optimizer output), with nothing of an earlier attempt: the
\* buffer is empty when an iteration encodes into it, and the returned
\* length is the length compared with the budget in the last iteration.
C15_OnlyFinalArtifact ==
    /\ (pc \in {"jpeg_encode", "png_encode", "webp_encode"} => buffer = <<>>)
    /\ (pc \in {"jpeg_check", "png_optimize", "png_check", "webp_check"} =>
           FromLastAttempt(buffer))
    /\ (pc = "png_check" => FromLastAttempt(optimized))
    /\ (returned =>
           /\ FromLastAttempt(compressed_data)
           /\ Len(compressed_data) = lastLen
           /\ compressed_data = (IF pngRun THEN optimized ELSE buffer))

C15_Witness ==
    /\ returned
    /\ jpegRun
    /\ Len(attempts) = 3
    /\ compressed_data = Bytes(2, 3)

\* C16: compress_png runs the optimizer in every iteration, after the
\* encode and before the measure; the length compared with the budget and
\* the bytes returned are those of the optimized stream, so the returned
\* length is <= the unoptimized length of the same attempt.
C16_OptimizedIsMeasured ==
    pngRun =>
        /\ (pc \in {"png_top", "png_check"} \/ returned =>
               optimizeCalls = Len(attempts))
        /\ (pc \in {"png_encode", "png_optimize"} =>
               /\ optimizeCalls = Len(fits)
               /\ Len(fits) \in {Len(attempts), Len(attempts) - 1})
        /\ (pc = "png_top" \/ returned =>
               /\ Len(fits) = optimizeCalls
               /\ (Len(fits) > 0 =>
                      /\ lastLen = Len(optimized)
                      /\ lastLen <= Len(buffer)
                      /\ FromLastAttempt(optimized)
                      /\ FromLastAttempt(buffer)))
        /\ (returned =>
               /\ compressed_data = optimized
               /\ Len(compressed_data) <= Len(buffer))

C16_Witness ==
    /\ pngRun
    /\ returned
    /\ Len(attempts) = 2
    /\ optimizeCalls = 2
    /\ Len(buffer) = 3
    /\ Len(compressed_data) = 1

\* floor(w * k/10), the dimension at the scale of k tenths
FloorScaled(w, k) == (w * k) \div 10

\* the number of the attempts so far that ran at a scale below 1.0
ScaledAttempts == Cardinality({k \in 1..Len(attempts) : attempts[k].scale < ONE})

\* C17: in every iteration the working raster is made from the original
\* raster: resize is called if and only if scale < 1.0, on the original,
\* with target dimensions floor(width * scale) and floor(height * scale)
\* of the original width and height; otherwise the working raster has the
\* original's dimensions.
C17_ResizeFromOriginal ==
    pc \in {"jpeg_encode", "png_encode", "webp_encode"} =>
        /\ processed.of = img
        /\ (processed.kind = "resized") <=> (scale < ONE)
        /\ (processed.kind = "clone") <=> (scale = ONE)
        /\ resizeCalls = ScaledAttempts + (IF scale < ONE THEN 1 ELSE 0)
        /\ processed.width = FloorScaled(img.width, NominalTenths(scale))
        /\ processed.height = FloorScaled(img.height, NominalTenths(scale))

\* what holds of the code: the same, with the dimensions as the code
\* computes them, the f32 product truncated
C17_AsComputed ==
    pc \in {"jpeg_encode", "png_encode", "webp_encode"} =>
        /\ processed.of = img
        /\ (processed.kind = "resized") <=> (scale < ONE)
        /\ (processed.kind = "clone") <=> (scale = ONE)
        /\ resizeCalls = ScaledAttempts + (IF scale < ONE THEN 1 ELSE 0)
        /\ processed.width \in {FloorScaled(img.width, NominalTenths(scale)),
                                FloorScaled(img.width, NominalTenths(scale)) - 1}
        /\ processed.height \in {FloorScaled(img.height, NominalTenths(scale)),
                                 FloorScaled(img.height, NominalTenths(scale)) - 1}

====
